---- MODULE Spec2Model ----
(***************************************************************************)
(* A model of the architecture-assembly logic of keras/resnet.py           *)
(* (ResnetBuilder.build, _residual_block, the depth presets) and of the    *)
(* training driver keras_model/train.py.                                   *)
(*                                                                         *)
(* A tensor is abstracted to [id, channels]: id 0 is pool1 (the output of  *)
(* the stem), id k > 0 is the output of the k-th block constructor call.   *)
(* The block constructors (variant_res_module) are opaque: a call is       *)
(* logged in `calls` with the constructor invoked, the slot it was invoked *)
(* through (id_block / conv_block) and its five positional arguments.      *)
(* Losses are integers in units of 0.001.                                  *)
(***************************************************************************)
EXTENDS Integers, Sequences, FiniteSets, TLC

\* ---- bounds of the model ------------------------------------------------
MaxStages == 3
MaxReps == 2
MaxLoss == 3

\* ---- program constants --------------------------------------------------
StemFilters == 64
InitFilters == 64
Epochs == 200
Patience == 5
MinDelta == 1
num_output == 7

None == "None"

VARIABLES
    ordering,       \* K.image_dim_ordering(): "tf" or "th"
    axes,           \* the globals ROW_AXIS, COL_AXIS, CHANNEL_AXIS
    pc,             \* position of the running script / call
    caller,         \* who called ResnetBuilder.build
    block_fun,      \* the block_fun a preset session passes
    input_shape, num_outputs, repetitions, block_fn,   \* build's arguments
    id_block, conv_block,                              \* build's locals
    input, block, filters, i, rep_i,
    calls,          \* log of block constructor calls made by the running build
    model,          \* the value build returned
    models,         \* preset name -> the model it returned
    backbone,       \* Config.backbone
    fit_callbacks,  \* callbacks= received by fit_generator
    epoch, stop_training,
    es_best, es_wait,   \* EarlyStopping's own state (when it is a callback)
    best_seen, stale    \* observer: best val_loss so far, epochs without improvement

buildVars == <<axes, input_shape, num_outputs, repetitions, block_fn, id_block,
               conv_block, input, block, filters, i, rep_i, calls>>
fitVars == <<fit_callbacks, epoch, stop_training, es_best, es_wait, best_seen, stale>>
vars == <<ordering, pc, caller, block_fun, buildVars, model, models, backbone, fitVars>>

\* ---- variant_res_module imports (resnet.py:16-17) ------------------------
Constructors ==
    {"resnet_convolution_block", "resnet_identity_block",
     "xresneXt_convolution_block", "xresneXt_identity_block",
     "dresneXt_convolution_block", "dresneXt_identity_block"}

Family(c) ==
    CASE c \in {"resnet_convolution_block", "resnet_identity_block"} -> "ResNet"
      [] c \in {"xresneXt_convolution_block", "xresneXt_identity_block"} -> "X"
      [] c \in {"dresneXt_convolution_block", "dresneXt_identity_block"} -> "D"
      [] OTHER -> None

Kind(c) ==
    CASE c \in {"resnet_convolution_block", "xresneXt_convolution_block",
                "dresneXt_convolution_block"} -> "convolution"
      [] c \in {"resnet_identity_block", "xresneXt_identity_block",
                "dresneXt_identity_block"} -> "identity"
      [] OTHER -> None

\* ---- _handle_dim_ordering ------------------------------------------------
HandleDimOrdering(o) ==
    IF o = "tf"
    THEN [ROW_AXIS |-> 1, COL_AXIS |-> 2, CHANNEL_AXIS |-> 3]
    ELSE [CHANNEL_AXIS |-> 1, ROW_AXIS |-> 2, COL_AXIS |-> 3]

\* ---- build: permute dimension order if necessary -------------------------
PermuteShape(o, shape) ==
    IF o = "tf" THEN <<shape[2], shape[3], shape[1]>> ELSE shape

\* ---- build: load function from str ---------------------------------------
SelectIdBlock(fn) ==
    IF fn = "resnext" THEN "xresneXt_identity_block"
    ELSE IF fn = "dresnext" THEN "dresneXt_identity_block"
    ELSE "resnet_identity_block"

SelectConvBlock(fn) ==
    IF fn = "resnext" THEN "xresneXt_identity_block"
    ELSE IF fn = "dresnext" THEN "dresneXt_convolution_block"
    ELSE "resnet_convolution_block"

\* ---- build: conv1 (64 filters) then max pooling --------------------------
Pool1 == [id |-> 0, channels |-> StemFilters]

\* ---- _residual_block -----------------------------------------------------
UsesConvBlock_NoFirstLayer(k, is_first_layer) == k = 0

UsesConvBlock(k, is_first_layer) == k = 0 /\ is_first_layer = FALSE

OutFilters(f) == f * 4

\* what a block constructor called with (filters, filters_out, ...) returns
BlockOutChannels(f, fout) == fout

\* ---- build: the stage loop -----------------------------------------------
IsFirstLayer(stage) == stage = 0

NextFilters_Keep(f) == f

NextFilters(f) == f * 2


\* ---- values of names not yet bound ---------------------------------------
NoAxes == [ROW_AXIS |-> 0, COL_AXIS |-> 0, CHANNEL_AXIS |-> 0]
NoTensor == [id |-> 0, channels |-> 0]
NoModel == [inputs |-> <<>>, outputs |-> 0, blocks |-> <<>>, top |-> NoTensor]

\* ---- inputs ---------------------------------------------------------------
Orderings == {"tf", "th"}
Shapes == {<<3, 224, 224>>, <<224, 224, 3>>, <<1, 32, 48>>, <<224, 224>>}
BlockFns == {"resnet", "resnext", "dresnext", "xresnet", "dresnet"}
RepLists == UNION {[1..n -> 0..MaxReps] : n \in 0..MaxStages}

Presets == {"build_resnet_18", "build_resnet_34", "build_resnet_50",
            "build_resnet_101", "build_resnet_152"}

\* ---- the depth presets ----------------------------------------------------
PresetReps(p) ==
    CASE p = "build_resnet_18"  -> <<2, 2, 2, 2>>
      [] p = "build_resnet_34"  -> <<3, 4, 6, 3>>
      [] p = "build_resnet_50"  -> <<3, 4, 6, 3>>
      [] p = "build_resnet_101" -> <<3, 4, 23, 3>>
      [] p = "build_resnet_152" -> <<3, 8, 36, 3>>

\* ---- ResnetBuilder.build up to the stage loop -----------------------------
BuildEnter(c, shape, n_out, reps, fn) ==
    /\ caller' = c
    /\ axes' = HandleDimOrdering(ordering)
    /\ input_shape' = shape
    /\ num_outputs' = n_out
    /\ repetitions' = reps
    /\ block_fn' = fn
    /\ calls' = <<>>
    /\ model' = NoModel
    /\ i' = 0
    /\ rep_i' = 0
    /\ IF Len(shape) # 3
       THEN /\ pc' = "raised"
            /\ id_block' = None
            /\ conv_block' = None
            /\ input' = <<>>
            /\ block' = NoTensor
            /\ filters' = 0
       ELSE /\ pc' = "loop"
            /\ id_block' = SelectIdBlock(fn)
            /\ conv_block' = SelectConvBlock(fn)
            /\ input' = PermuteShape(ordering, shape)
            /\ block' = Pool1
            /\ filters' = InitFilters

\* one iteration of _residual_block's loop: one block constructor call
ResidualStep ==
    /\ pc = "loop"
    /\ i < Len(repetitions)
    /\ rep_i < repetitions[i + 1]
    /\ LET slot == IF UsesConvBlock(rep_i, IsFirstLayer(i))
                   THEN "conv_block" ELSE "id_block"
           ctor == IF slot = "conv_block" THEN conv_block ELSE id_block
           call == [fn |-> ctor, slot |-> slot,
                    filters |-> filters, filters_out |-> OutFilters(filters),
                    stage |-> i, repetitions |-> repetitions[i + 1],
                    input |-> block]
       IN /\ calls' = Append(calls, call)
          /\ block' = [id |-> Len(calls) + 1,
                       channels |-> BlockOutChannels(call.filters, call.filters_out)]
    /\ rep_i' = rep_i + 1
    /\ UNCHANGED <<ordering, pc, caller, block_fun, axes, input_shape, num_outputs,
                   repetitions, block_fn, id_block, conv_block, input, filters, i,
                   model, models, backbone, fitVars>>

\* _residual_block returns; filters *= 2; next stage
StageEnd ==
    /\ pc = "loop"
    /\ i < Len(repetitions)
    /\ rep_i = repetitions[i + 1]
    /\ filters' = NextFilters(filters)
    /\ i' = i + 1
    /\ rep_i' = 0
    /\ UNCHANGED <<ordering, pc, caller, block_fun, axes, input_shape, num_outputs,
                   repetitions, block_fn, id_block, conv_block, input, block, calls,
                   model, models, backbone, fitVars>>

\* last activation, classifier block, Model(inputs=input, outputs=dense)
BuildReturn ==
    /\ pc = "loop"
    /\ i = Len(repetitions)
    /\ model' = [inputs |-> input, outputs |-> num_outputs, blocks |-> calls,
                 top |-> block]
    /\ pc' = "built"
    /\ UNCHANGED <<ordering, caller, block_fun, buildVars, models, backbone, fitVars>>

InitCommon ==
    /\ ordering \in Orderings
    /\ axes = NoAxes
    /\ input_shape = <<>> /\ num_outputs = 0 /\ repetitions = <<>> /\ block_fn = None
    /\ id_block = None /\ conv_block = None
    /\ input = <<>> /\ block = NoTensor /\ filters = 0 /\ i = 0 /\ rep_i = 0
    /\ calls = <<>>
    /\ model = NoModel
    /\ models = [p \in Presets |-> NoModel]
    /\ fit_callbacks = <<>>
    /\ epoch = 0 /\ stop_training = FALSE
    /\ es_best = MaxLoss + MinDelta /\ es_wait = 0
    /\ best_seen = MaxLoss + MinDelta /\ stale = 0

\* ---- Spec: ResnetBuilder.build called directly ----------------------------
Init ==
    /\ InitCommon
    /\ pc = "idle"
    /\ caller = None
    /\ block_fun = None
    /\ backbone = None

Build ==
    /\ pc = "idle"
    /\ \E shape \in Shapes, reps \in RepLists, fn \in BlockFns :
          BuildEnter("build", shape, num_output, reps, fn)
    /\ UNCHANGED <<ordering, block_fun, models, backbone, fitVars>>

Next == Build \/ ResidualStep \/ StageEnd \/ BuildReturn

Spec == Init /\ [][Next]_vars

\* ---- properties of ResnetBuilder.build ------------------------------------
InBuild == pc \in {"loop", "built"}

StageCalls(s) == {k \in 1..Len(calls) : calls[k].stage = s}

\* position of call k among the calls of its stage (0-based)
PosInStage(k) == Cardinality({m \in 1..(k - 1) : calls[m].stage = calls[k].stage})

\* C1: build selects a matching constructor pair for every block family:
\* X-variant identity + X-variant convolution for 'resnext', D-variant identity
\* + D-variant convolution for 'dresnext', ResNet identity + ResNet convolution
\* otherwise; conv_block is never bound to an identity constructor.
C1_MatchingPair ==
    InBuild =>
        LET fam == IF block_fn = "resnext" THEN "X"
                   ELSE IF block_fn = "dresnext" THEN "D" ELSE "ResNet"
        IN /\ Family(id_block) = fam /\ Kind(id_block) = "identity"
           /\ Family(conv_block) = fam /\ Kind(conv_block) = "convolution"

\* C2: every block constructor call of stage s receives 64 * 2^s as its first
\* argument and 4 * 64 * 2^s as its second, so the width passed to a stage is
\* exactly double that passed to the stage before it.
C2_StageWidths ==
    /\ \A k \in 1..Len(calls) :
          /\ calls[k].filters = 64 * 2 ^ calls[k].stage
          /\ calls[k].filters_out = 4 * 64 * 2 ^ calls[k].stage
    /\ \A k, m \in 1..Len(calls) :
          calls[m].stage = calls[k].stage + 1 =>
              /\ calls[m].filters = 2 * calls[k].filters
              /\ calls[m].filters_out = 2 * calls[k].filters_out

C2_Witness ==
    /\ pc = "built"
    /\ \E k, m \in 1..Len(calls) :
          /\ calls[k].stage = 1 /\ calls[k].filters = 128
          /\ calls[m].stage = 2 /\ calls[m].filters = 256 /\ calls[m].filters_out = 1024

C8_IdentityWidth ==
    \A k \in 1..Len(calls) :
        calls[k].slot = "id_block" => calls[k].input.channels = calls[k].filters_out

\* ---- SpecPresets: a session calling the depth presets with one block_fun --
PresetShape == <<3, 224, 224>>

ResetLocals ==
    /\ input_shape' = <<>> /\ num_outputs' = 0 /\ repetitions' = <<>>
    /\ block_fn' = None /\ id_block' = None /\ conv_block' = None
    /\ input' = <<>> /\ block' = NoTensor /\ filters' = 0 /\ i' = 0 /\ rep_i' = 0
    /\ calls' = <<>>

CallPreset(p) ==
    /\ BuildEnter(p, PresetShape, num_output, PresetReps(p), block_fun)
    /\ UNCHANGED <<ordering, block_fun, models, backbone, fitVars>>

build_resnet_18 ==
    /\ pc = "idle"
    /\ CallPreset("build_resnet_18")

build_resnet_34 ==
    /\ pc = "idle"
    /\ CallPreset("build_resnet_34")

build_resnet_50 ==
    /\ pc = "idle"
    /\ CallPreset("build_resnet_50")

build_resnet_101 ==
    /\ pc = "idle"
    /\ CallPreset("build_resnet_101")

build_resnet_152 ==
    /\ pc = "idle"
    /\ CallPreset("build_resnet_152")

\* the preset returns build's model to the session
PresetReturn ==
    /\ pc = "built"
    /\ caller \in Presets
    /\ models' = [models EXCEPT ![caller] = model]
    /\ pc' = "idle"
    /\ ResetLocals
    /\ UNCHANGED <<ordering, caller, block_fun, axes, model, backbone, fitVars>>

InitPresets ==
    /\ InitCommon
    /\ pc = "idle"
    /\ caller = None
    /\ block_fun \in BlockFns
    /\ backbone = None

NextPresets ==
    \/ build_resnet_18 \/ build_resnet_34 \/ build_resnet_50
    \/ build_resnet_101 \/ build_resnet_152
    \/ ResidualStep \/ StageEnd \/ BuildReturn \/ PresetReturn

SpecPresets == InitPresets /\ [][NextPresets]_vars

\* ---- SpecTrain: the training driver keras_model/train.py ------------------
Backbones == {"resnet50", "resnet101", "resnet152",
              "xresnet50", "xresnet101", "xresnet152",
              "dresnet50", "dresnet101", "dresnet152", "resnet18"}

DriverBackbones == Backbones \ {"resnet18"}

DriverPreset(b) ==
    CASE b \in {"resnet50", "xresnet50", "dresnet50"} -> "build_resnet_50"
      [] b \in {"resnet101", "xresnet101", "dresnet101"} -> "build_resnet_101"
      [] b \in {"resnet152", "xresnet152", "dresnet152"} -> "build_resnet_152"

DriverBlockFun(b) ==
    CASE b \in {"resnet50", "resnet101", "resnet152"} -> "resnet"
      [] b \in {"xresnet50", "xresnet101", "xresnet152"} -> "xresnet"
      [] b \in {"dresnet50", "dresnet101", "dresnet152"} -> "dresnet"

DriverShape == <<224, 224, 3>>

callbacks == <<"tensorboard", "lr_reduce", "checkpoint">>

\* shape of the images flow_from_directory(target_size=(224,224)) emits (rgb)
ImageShape(o) == IF o = "tf" THEN <<224, 224, 3>> ELSE <<3, 224, 224>>

Range(f) == {f[k] : k \in DOMAIN f}

\* the chain of `if Config.backbone == ...`; no branch taken leaves base_model
\* unbound and base_model.summary() raises
SelectBackbone ==
    /\ pc = "script"
    /\ IF backbone \in DriverBackbones
       THEN /\ BuildEnter("train", DriverShape, num_output,
                          PresetReps(DriverPreset(backbone)), DriverBlockFun(backbone))
            /\ block_fun' = DriverBlockFun(backbone)
       ELSE /\ pc' = "raised"
            /\ UNCHANGED <<caller, block_fun, buildVars, model>>
    /\ UNCHANGED <<ordering, models, backbone, fitVars>>

\* compile, then fit_generator(..., epochs=200, callbacks=callbacks, ...)
FitStart ==
    /\ pc = "built"
    /\ caller = "train"
    /\ fit_callbacks' = callbacks
    /\ epoch' = 0
    /\ pc' = "fit"
    /\ ResetLocals
    /\ UNCHANGED <<ordering, caller, block_fun, axes, model, models, backbone,
                   stop_training, es_best, es_wait, best_seen, stale>>

\* EarlyStopping(monitor='val_loss', patience=5, min_delta=0.001).on_epoch_end
EarlyStoppingOnEpochEnd(val_loss) ==
    IF val_loss + MinDelta < es_best
    THEN /\ es_best' = val_loss
         /\ es_wait' = 0
         /\ UNCHANGED stop_training
    ELSE /\ es_wait' = es_wait + 1
         /\ stop_training' = (stop_training \/ es_wait + 1 >= Patience)
         /\ UNCHANGED es_best

\* one epoch of fit_generator: validation, then the callbacks' on_epoch_end
Epoch ==
    /\ pc = "fit"
    /\ epoch < Epochs
    /\ ~stop_training
    /\ \E val_loss \in 0..MaxLoss :
          /\ IF "early_stopping" \in Range(fit_callbacks)
             THEN EarlyStoppingOnEpochEnd(val_loss)
             ELSE UNCHANGED <<es_best, es_wait, stop_training>>
          /\ IF best_seen - val_loss >= MinDelta
             THEN best_seen' = val_loss /\ stale' = 0
             ELSE /\ stale' = IF stale < Patience THEN stale + 1 ELSE stale
                  /\ UNCHANGED best_seen
    /\ epoch' = epoch + 1
    /\ UNCHANGED <<ordering, pc, caller, block_fun, buildVars, model, models,
                   backbone, fit_callbacks>>

FitEnd ==
    /\ pc = "fit"
    /\ epoch = Epochs \/ stop_training
    /\ pc' = "trained"
    /\ UNCHANGED <<ordering, caller, block_fun, buildVars, model, models, backbone,
                   fitVars>>

InitTrain ==
    /\ InitCommon
    /\ pc = "script"
    /\ caller = None
    /\ block_fun = None
    /\ backbone \in Backbones

NextTrain ==
    \/ SelectBackbone \/ ResidualStep \/ StageEnd \/ BuildReturn
    \/ FitStart \/ Epoch \/ FitEnd

SpecTrain == InitTrain /\ [][NextTrain]_vars

\* ---- properties of the presets --------------------------------------------
RECURSIVE SumSeq(_)
SumSeq(q) == IF q = <<>> THEN 0 ELSE Head(q) + SumSeq(Tail(q))

C7_Listed(p) ==
    CASE p = "build_resnet_18"  -> <<2, 2, 2, 2>>
      [] p = "build_resnet_34"  -> <<3, 4, 6, 3>>
      [] p = "build_resnet_50"  -> <<3, 4, 6, 3>>
      [] p = "build_resnet_101" -> <<3, 4, 23, 3>>
      [] p = "build_resnet_152" -> <<3, 8, 36, 3>>

\* C7: each preset builds a distinct, fixed four-stage architecture and passes
\* block_fun through unchanged: its repetitions are the listed ones, the number
\* of block constructor calls is the sum of the list, and for the same
\* block_fun two different presets never produce the same sequence of calls.
C7_DistinctPresets ==
    /\ (pc = "loop" /\ caller \in Presets) =>
          /\ repetitions = C7_Listed(caller)
          /\ block_fn = block_fun
    /\ \A p \in Presets :
          models[p] # NoModel =>
              Len(models[p].blocks) = SumSeq(C7_Listed(p))
    /\ \A p, q \in Presets :
          (p # q /\ models[p] # NoModel /\ models[q] # NoModel) =>
              models[p].blocks # models[q].blocks

\* ---- properties of the training driver ------------------------------------
Returned == pc \in {"built", "fit", "trained"} /\ caller = "train"

C4_Family(b) ==
    CASE b \in {"xresnet50", "xresnet101", "xresnet152"} -> "X"
      [] b \in {"dresnet50", "dresnet101", "dresnet152"} -> "D"
      [] b \in {"resnet50", "resnet101", "resnet152"} -> "ResNet"

\* C4: the network returned to the driver is assembled from the block family
\* Config.backbone names: X-variant constructors for xresnet*, D-variant for
\* dresnet*, ResNet for resnet*.
C4_BackboneFamily ==
    Returned =>
        /\ model.blocks # <<>>
        /\ \A k \in 1..Len(model.blocks) :
              Family(model.blocks[k].fn) = C4_Family(backbone)

\* C5: the EarlyStopping callback (val_loss, patience 5, min_delta 0.001) is
\* among the callbacks fit_generator receives, as are the checkpoint and the
\* learning-rate reduction callbacks, so training stops once val_loss has
\* failed to improve by at least 0.001 for 5 consecutive epochs.
C5_EarlyStopping ==
    /\ pc \in {"fit", "trained"} =>
          {"early_stopping", "checkpoint", "lr_reduce"} \subseteq Range(fit_callbacks)
    /\ (pc = "fit" /\ stale >= Patience) => stop_training

\* C6: build reads input_shape as (nb_channels, nb_rows, nb_cols): the Input
\* layer gets (nb_rows, nb_cols, nb_channels) under 'tf' and input_shape
\* unchanged otherwise; so the driver's model takes 224 rows x 224 columns x 3
\* channels, the shape of the images the data generators emit.
C6_InputMatchesImages ==
    Returned =>
        /\ model.inputs = IF ordering = "tf"
                          THEN <<DriverShape[2], DriverShape[3], DriverShape[1]>>
                          ELSE DriverShape
        /\ model.inputs[axes.ROW_AXIS] = 224
        /\ model.inputs[axes.COL_AXIS] = 224
        /\ model.inputs[axes.CHANNEL_AXIS] = 3
        /\ model.inputs = ImageShape(ordering)

====
